---- MODULE Spec2Model ----
(***************************************************************************)
(* Model of the resource-manager project of the study plan:                *)
(* ResourceManager<Resource> (a bounded cache with timestamp LRU eviction) *)
(* and MultiResourceManager (typed retrieval over variant<Texture,Sound>). *)
(***************************************************************************)
EXTENDS Integers, Sequences, FiniteSets, TLC

\* ---------------------------------------------------------------- bounds
MaxCap == 2
MaxOps == 4
MaxScript == 4

\* ---------------------------------------------------------------- paths
\* A path is the sequence of its characters.
PathA == <<"a", ".", "p", "n", "g">>
PathB == <<"b", ".", "w", "a", "v">>
PathC == <<"c", ".", "p", "n", "g">>
PathD == <<"d", ".", "t", "x", "t">>
Keys == {PathA, PathB, PathC, PathD}

ExtPng == <<".", "p", "n", "g">>
ExtJpg == <<".", "j", "p", "g">>
ExtWav == <<".", "w", "a", "v">>
ExtMp3 == <<".", "m", "p", "3">>

\* Index of the last "." of p, 0 when there is none.
LastDot(p) ==
    LET dots == {i \in 1..Len(p) : p[i] = "."}
    IN  IF dots = {} THEN 0 ELSE CHOOSE i \in dots : \A j \in dots : j <= i

\* std::filesystem::path(p).extension() for a path without directory part:
\* empty for ".", ".." and for a name whose only dot is the leading one,
\* otherwise the suffix that starts at the last dot.
Extension(p) ==
    IF p = <<".">> \/ p = <<".", ".">> \/ LastDot(p) <= 1
    THEN <<>>
    ELSE SubSeq(p, LastDot(p), Len(p))

\* Only .png makes a texture and only .wav a sound.
load_resourceFirstOnly(path) ==
    LET ext == Extension(path)
    IN  IF ext = ExtPng THEN "Texture"
        ELSE IF ext = ExtWav THEN "Sound"
        ELSE "null"

\* The alternative of AnyResource that load_resource builds for a path,
\* "null" for the nullptr it returns otherwise.
load_resource(path) ==
    LET ext == Extension(path)
    IN  IF ext = ExtPng \/ ext = ExtJpg THEN "Texture"
        ELSE IF ext = ExtWav \/ ext = ExtMp3 THEN "Sound"
        ELSE "null"

\* loader_ as MultiResourceManager's constructor installs it.
loader_(path) == load_resource(path)

Kinds == {"Texture", "Sound"}

\* An empty shared_ptr.
NullPtr == [id |-> 0, kind |-> "null"]

\* ---------------------------------------------------------------- state
VARIABLES
    max_cache_size_,  \* capacity given to the constructor
    cache_,           \* path -> ResourceData, for the cached paths
    now,              \* last value steady_clock::now() returned
    nextId,           \* identity of the next resource object allocated
    crashed,          \* the process died in undefined behaviour
    steps,            \* number of operations performed
    last,             \* what the last operation did and returned
    prev,             \* the operation before it
    script,           \* scripted run: the get calls still to make
    played,           \* scripted run: the get calls made, with their times
    use_count,        \* resource identity -> use_count() of its control block
    handles,          \* resource identity -> number of handles callers hold
    freed,            \* identities of the resources that were deleted
    thr,              \* concurrent callers: each thread's place inside get
    loaderCalls,      \* concurrent callers: path -> calls of loader_ so far
    self,             \* two managers: the one cache_ and max_cache_size_ are of
    parked,           \* two managers: the members of the other one
    head,             \* LockFreeStack: the address in head, 0 for nullptr
    heap,             \* LockFreeStack: address -> the Node there
    stk,              \* LockFreeStack: each thread's place in push or pop
    pushed,           \* LockFreeStack: the values whose push has returned
    popped,           \* LockFreeStack: the values pops returned, in order
    ubSeen,           \* the kinds of undefined behaviour the run executed
    block_size_,      \* MemoryPool: size of a block
    alignment_,       \* MemoryPool: alignment of a block
    chunks_,          \* MemoryPool: the used count of each Chunk
    free_list_,       \* MemoryPool: the free blocks, first one first
    given,            \* MemoryPool: the blocks allocate handed out
    ptr_,             \* IntrusivePtr: each pointer object's ptr_
    ref_count_,       \* RefCounted: each object's ref_count_
    deleted           \* RefCounted: how many times each object was deleted

ownVars == <<use_count, handles, freed>>
concVars == <<thr, loaderCalls>>
isoVars == <<self, parked>>
stackVars == <<head, heap, stk, pushed, popped>>
poolVars == <<block_size_, alignment_, chunks_, free_list_, given>>
ptrVars == <<ptr_, ref_count_, deleted>>
libVars == <<stackVars, poolVars, ptrVars, ubSeen>>

vars == <<max_cache_size_, cache_, now, nextId, crashed, steps, last, prev,
          script, played, use_count, handles, freed, thr, loaderCalls,
          self, parked, head, heap, stk, pushed, popped, ubSeen, block_size_,
          alignment_, chunks_, free_list_, given, ptr_, ref_count_, deleted>>

\* No stack, no pool and no intrusive pointer.
StackIdle ==
    head = 0 /\ heap = <<>> /\ stk = <<>> /\ pushed = {} /\ popped = <<>>

PoolIdle ==
    /\ block_size_ = 0 /\ alignment_ = 0 /\ chunks_ = <<>>
    /\ free_list_ = <<>> /\ given = {}

PtrIdle == ptr_ = <<>> /\ ref_count_ = <<>> /\ deleted = <<>>

LibIdle == StackIdle /\ PoolIdle /\ PtrIdle /\ ubSeen = {}

size == Cardinality(DOMAIN cache_)

NoOp == [op |-> "none", key |-> <<>>, kind |-> "Any", ret |-> NullPtr,
         found |-> NullPtr, hit |-> FALSE, loads |-> 0, evicted |-> {}, ub |-> FALSE,
         mismatch |-> FALSE]

Brief(l) == [op |-> l.op, key |-> l.key, kind |-> l.kind, ret |-> l.ret,
             hit |-> l.hit, mismatch |-> l.mismatch]

\* ------------------------------------------------- ResourceManager::get
\* The orders in which an unordered_map holding the keys S may iterate.
Orders(S) ==
    {o \in [1..Cardinality(S) -> S] : \A i, j \in 1..Cardinality(S) :
                                          i # j => o[i] # o[j]}

\* it->second.last_access < oldest_time
OlderInverted(a, b) == a > b

Older(a, b) == a < b

RECURSIVE Scan(_, _, _, _)
\* The loop of evict_lru over the iteration order ord, from position i on.
Scan(c, ord, i, oldest) ==
    IF i > Len(ord) THEN oldest
    ELSE Scan(c, ord, i + 1,
              IF Older(c[ord[i]].last_access, c[oldest].last_access)
              THEN ord[i] ELSE oldest)

\* The least frequently used entry, the first such in iteration order.
VictimByCount(c, ord) ==
    LET least == CHOOSE n \in {c[k].access_count : k \in DOMAIN c} :
                     \A k \in DOMAIN c : n <= c[k].access_count
        first == CHOOSE i \in 1..Len(ord) :
                     /\ c[ord[i]].access_count = least
                     /\ \A j \in 1..(i - 1) : c[ord[j]].access_count # least
    IN  ord[first]

VictimFirst(c, ord) == ord[1]

\* The entry evict_lru erases: the first one in iteration order whose
\* last_access is minimal.
Victim(c, ord) == Scan(c, ord, 1, ord[1])

evict_lru(c, ord) ==
    LET v == Victim(c, ord) IN [k \in DOMAIN c \ {v} |-> c[k]]

\* Room is made one entry early.
FullEager(c) == Cardinality(DOMAIN c) + 1 >= max_cache_size_

FullOffByOne(c) == Cardinality(DOMAIN c) > max_cache_size_

\* The test of line 397: the map has reached the capacity.
Full(c) == Cardinality(DOMAIN c) >= max_cache_size_

LoadedAlways(kind) == TRUE

\* The test of line 402, on what the loader returned.
Loaded(kind) == kind # "null"

\* A hit that loads the resource again and stores the new object.
TouchReloaded(c, path, t) ==
    [c EXCEPT ![path].resource = [id |-> nextId, kind |-> loader_(path)],
              ![path].last_access = t,
              ![path].access_count = @ + 1]

TouchSkipCount(c, path, t) == [c EXCEPT ![path].last_access = t]

TouchNoRefresh(c, path, t) == [c EXCEPT ![path].access_count = @ + 1]

\* The update a hit makes to the entry of path, t being the time read.
Touch(c, path, t) ==
    [c EXCEPT ![path].last_access = t, ![path].access_count = @ + 1]

InsertZero(c, path, shared, t) ==
    [k \in DOMAIN c \cup {path} |->
        IF k = path
        THEN [resource |-> shared, last_access |-> t, access_count |-> 0]
        ELSE c[k]]

InsertMoved(c, path, shared, t) ==
    [k \in DOMAIN c \cup {path} |->
        IF k = path
        THEN [resource |-> NullPtr, last_access |-> t, access_count |-> 1]
        ELSE c[k]]

\* Every load hands out the first object again.
InsertReused(c, path, shared, t) ==
    [k \in DOMAIN c \cup {path} |->
        IF k = path
        THEN [resource |-> [id |-> 1, kind |-> shared.kind],
              last_access |-> t, access_count |-> 1]
        ELSE c[k]]

InsertDefault(c, path, shared, t) ==
    [k \in DOMAIN c \cup {path} |->
        IF k = path
        THEN [resource |-> [id |-> shared.id, kind |-> "Texture"],
              last_access |-> t, access_count |-> 1]
        ELSE c[k]]

\* cache_[path] = {shared, now(), 1}
Insert(c, path, shared, t) ==
    [k \in DOMAIN c \cup {path} |->
        IF k = path
        THEN [resource |-> shared, last_access |-> t, access_count |-> 1]
        ELSE c[k]]

getLoadFirst(path, dt, ord, ub) ==
    IF path \in DOMAIN cache_
    THEN [cache |-> Touch(cache_, path, now + dt),
          ret |-> cache_[path].resource, now |-> now + dt, nextId |-> nextId,
          hit |-> TRUE, loads |-> 0, evicted |-> {}, ub |-> FALSE,
          crashed |-> FALSE]
    ELSE
      LET kind == loader_(path)
          shared == [id |-> nextId, kind |-> kind]
          c1 == IF Full(cache_) /\ DOMAIN cache_ # {}
                THEN evict_lru(cache_, ord) ELSE cache_
      IN  IF ~Loaded(kind)
          THEN [cache |-> cache_, ret |-> NullPtr, now |-> now,
                nextId |-> nextId, hit |-> FALSE, loads |-> 1,
                evicted |-> {}, ub |-> FALSE, crashed |-> FALSE]
          ELSE [cache |-> Insert(c1, path, shared, now + dt),
                ret |-> shared, now |-> now + dt, nextId |-> nextId + 1,
                hit |-> FALSE, loads |-> 1,
                evicted |-> DOMAIN cache_ \ DOMAIN c1, ub |-> FALSE,
                crashed |-> FALSE]

\* ResourceManager::get on a manager whose map is c.  dt is the advance of the
\* steady clock seen by the call's now(), ord the iteration order of c,
\* ub the outcome of evict_lru on an empty map (the process dies, or the
\* call goes on with the map as it was).
getOn(c, path, dt, ord, ub) ==
    IF path \in DOMAIN c
    THEN [cache |-> Touch(c, path, now + dt),
          ret |-> c[path].resource, now |-> now + dt, nextId |-> nextId,
          hit |-> TRUE, loads |-> 0, evicted |-> {}, ub |-> FALSE,
          crashed |-> FALSE]
    ELSE
      LET undef == Full(c) /\ DOMAIN c = {}
          c1 == IF Full(c) /\ ~undef THEN evict_lru(c, ord)
                ELSE c
          gone == DOMAIN c \ DOMAIN c1
          kind == loader_(path)
          shared == [id |-> nextId, kind |-> kind]
      IN  IF undef /\ ub = "crash"
          THEN [cache |-> c, ret |-> NullPtr, now |-> now,
                nextId |-> nextId, hit |-> FALSE, loads |-> 0,
                evicted |-> {}, ub |-> TRUE, crashed |-> TRUE]
          ELSE IF ~Loaded(kind)
          THEN [cache |-> c1, ret |-> NullPtr, now |-> now,
                nextId |-> nextId, hit |-> FALSE, loads |-> 1,
                evicted |-> gone, ub |-> undef, crashed |-> FALSE]
          ELSE [cache |-> Insert(c1, path, shared, now + dt),
                ret |-> shared, now |-> now + dt, nextId |-> nextId + 1,
                hit |-> FALSE, loads |-> 1, evicted |-> gone, ub |-> undef,
                crashed |-> FALSE]

\* ResourceManager::get on the current state.
get(path, dt, ord, ub) == getOn(cache_, path, dt, ord, ub)

\* The narrowing of MultiResourceManager::get<T>: get_if<T> on the variant
\* and the aliasing shared_ptr, or nullptr.
Project(T, resource) ==
    IF resource = NullPtr THEN NullPtr
    ELSE IF resource.kind = T THEN resource
    ELSE NullPtr

getTDropMismatch(T, path, dt, ord, ub) ==
    LET r == get(path, dt, ord, ub)
        bad == r.ret # NullPtr /\ Project(T, r.ret) = NullPtr
    IN  [cache |-> IF bad THEN [k \in DOMAIN r.cache \ {path} |-> r.cache[k]]
                   ELSE r.cache,
         ret |-> Project(T, r.ret), found |-> r.ret,
         now |-> r.now, nextId |-> r.nextId, hit |-> r.hit,
         loads |-> r.loads, evicted |-> r.evicted, ub |-> r.ub,
         crashed |-> r.crashed]

\* MultiResourceManager::get<T>: manager_.get(path), then the narrowing.
\* found is the handle manager_.get returned.
getT(T, path, dt, ord, ub) ==
    LET r == get(path, dt, ord, ub)
    IN  [cache |-> r.cache, ret |-> Project(T, r.ret), found |-> r.ret,
         now |-> r.now, nextId |-> r.nextId, hit |-> r.hit,
         loads |-> r.loads, evicted |-> r.evicted, ub |-> r.ub,
         crashed |-> r.crashed]

\* ResourceManager<AnyResource>::get called directly, in the same shape.
getAny(path, dt, ord, ub) ==
    LET r == get(path, dt, ord, ub)
    IN  [cache |-> r.cache, ret |-> r.ret, found |-> r.ret,
         now |-> r.now, nextId |-> r.nextId, hit |-> r.hit,
         loads |-> r.loads, evicted |-> r.evicted, ub |-> r.ub,
         crashed |-> r.crashed]

\* ---------------------------------------------------------------- actions
\* The iteration orders that matter to a get of path: those of the map when
\* the call evicts, none otherwise.
OrdersFor(path) ==
    IF path \notin DOMAIN cache_ /\ Full(cache_) /\ DOMAIN cache_ # {}
    THEN Orders(DOMAIN cache_)
    ELSE {<<>>}

\* The outcomes of evict_lru on an empty map, when the get of path runs it.
OutcomesFor(path) ==
    IF path \notin DOMAIN cache_ /\ Full(cache_) /\ DOMAIN cache_ = {}
    THEN {"crash", "noop"}
    ELSE {"noop"}

Record(r, op, path, T) ==
    /\ cache_' = r.cache
    /\ now' = r.now
    /\ nextId' = r.nextId
    /\ crashed' = r.crashed
    /\ steps' = steps + 1
    /\ prev' = Brief(last)
    /\ last' = [op |-> op, key |-> path, kind |-> T, ret |-> r.ret,
                found |-> r.found, hit |-> r.hit, loads |-> r.loads,
                evicted |-> r.evicted, ub |-> r.ub,
                mismatch |-> (r.found # NullPtr /\ r.ret = NullPtr)]
    /\ UNCHANGED max_cache_size_

GetStep(path) ==
    /\ ~crashed /\ steps < MaxOps
    /\ \E dt \in {0, 1}, ord \in OrdersFor(path), ub \in OutcomesFor(path) :
          LET r == getAny(path, dt, ord, ub)
          IN  /\ Record(r, "get", path, "Any")
              /\ played' = IF script = <<>> THEN played
                           ELSE Append(played,
                                  [op |-> "get", key |-> path, at |-> r.now,
                                   ret |-> r.ret, hit |-> r.hit,
                                   loads |-> r.loads,
                                   evicted |-> r.evicted])

Get(path) ==
    /\ GetStep(path) /\ script = <<>>
    /\ UNCHANGED <<script, ownVars, concVars, isoVars, libVars>>

GetTypedStep(T, path) ==
    /\ ~crashed /\ steps < MaxOps /\ script = <<>>
    /\ \E dt \in {0, 1}, ord \in OrdersFor(path), ub \in OutcomesFor(path) :
          Record(getT(T, path, dt, ord, ub), "getTyped", path, T)
    /\ UNCHANGED <<script, played>>

GetTyped(T, path) ==
    GetTypedStep(T, path) /\ UNCHANGED <<ownVars, concVars, isoVars, libVars>>

ClearedOne(c) ==
    IF DOMAIN c = {} THEN c
    ELSE LET v == CHOOSE k \in DOMAIN c : TRUE
         IN  [k \in DOMAIN c \ {v} |-> c[k]]

\* What clear() leaves of the map.
Cleared(c) == [k \in {} |-> c[k]]

ClearStep ==
    /\ ~crashed /\ steps < MaxOps
    /\ cache_' = Cleared(cache_)
    /\ steps' = steps + 1
    /\ prev' = Brief(last)
    /\ last' = [NoOp EXCEPT !.op = "clear"]
    /\ UNCHANGED <<max_cache_size_, now, nextId, crashed>>

Clear ==
    /\ ClearStep /\ script = <<>>
    /\ UNCHANGED <<script, played, ownVars, concVars, isoVars, libVars>>

\* The identities resources can get within MaxOps operations.
Ids == 1..(MaxOps + 1)

\* No second manager.
NoManager == [cache |-> <<>>, cap |-> 0]

\* Nothing but one manager and calls that drop the handle they get: no
\* ownership bookkeeping, no concurrent callers, no second manager.
Idle ==
    /\ use_count = [i \in Ids |-> 0]
    /\ handles = [i \in Ids |-> 0]
    /\ freed = {}
    /\ thr = <<>>
    /\ loaderCalls = [k \in Keys |-> 0]
    /\ self = 1
    /\ parked = NoManager

Init ==
    /\ max_cache_size_ \in 0..MaxCap
    /\ cache_ = [k \in {} |-> NullPtr]
    /\ now = 0
    /\ nextId = 1
    /\ crashed = FALSE
    /\ steps = 0
    /\ last = NoOp
    /\ prev = Brief(NoOp)
    /\ script = <<>>
    /\ played = <<>>
    /\ Idle /\ LibIdle

Next ==
    \/ \E path \in Keys : Get(path)
    \/ \E T \in Kinds, path \in Keys : GetTyped(T, path)
    \/ Clear

Spec == Init /\ [][Next]_vars

\* A call of clear() in a scripted run.
ClearCall == <<"clear">>

\* A scripted run: a cache of capacity >= 1 and a fixed list of get and clear
\* calls.
Scripts == UNION {[1..n -> Keys \cup {ClearCall}] : n \in 1..MaxScript}

ScriptInit ==
    /\ max_cache_size_ \in 1..MaxCap
    /\ cache_ = [k \in {} |-> NullPtr]
    /\ now = 0
    /\ nextId = 1
    /\ crashed = FALSE
    /\ steps = 0
    /\ last = NoOp
    /\ prev = Brief(NoOp)
    /\ script \in Scripts
    /\ played = <<>>
    /\ Idle /\ LibIdle

ScriptGet ==
    /\ script # <<>> /\ Head(script) \in Keys
    /\ GetStep(Head(script))
    /\ script' = Tail(script)
    /\ UNCHANGED <<ownVars, concVars, isoVars, libVars>>

ScriptClear ==
    /\ script # <<>> /\ Head(script) = ClearCall
    /\ ClearStep
    /\ script' = Tail(script)
    /\ played' = Append(played,
                    [op |-> "clear", key |-> ClearCall, at |-> now,
                     ret |-> NullPtr, hit |-> FALSE, loads |-> 0,
                     evicted |-> DOMAIN cache_])
    /\ UNCHANGED <<ownVars, concVars, isoVars, libVars>>

ScriptNext == ScriptGet \/ ScriptClear

ScriptSpec == ScriptInit /\ [][ScriptNext]_vars

\* ------------------------------------------------------------ ownership
\* A specification that keeps the books of std::shared_ptr: every copy of a
\* handle adds one to the use count of its resource, every destruction takes
\* one away and deletes the resource at zero.  o is [rc, freed].
Acquire(o, id) == [o EXCEPT !.rc[id] = @ + 1]

Drop(o, id) ==
    [rc |-> [o.rc EXCEPT ![id] = @ - 1],
     freed |-> IF o.rc[id] = 1 THEN o.freed \cup {id} ELSE o.freed]

RECURSIVE DropAll(_, _)
\* The destruction of the handles of the erased entries.
DropAll(o, ids) ==
    IF ids = {} THEN o
    ELSE LET id == CHOOSE i \in ids : TRUE
         IN  DropAll(Drop(o, id), ids \ {id})

\* The identities held by the entries of the keys ks of map c.
HeldBy(c, ks) == {c[k].resource.id : k \in ks}

\* The books when ResourceManager::get returns: the evicted entry is
\* destroyed; a hit returns a copy of the stored handle; a miss makes the
\* handle, stores a copy in cache_ and returns it.
AfterGet(o, c, l) ==
    LET o1 == DropAll(o, HeldBy(c, l.evicted))
    IN  IF l.found = NullPtr THEN o1
        ELSE IF l.hit THEN Acquire(o1, l.found.id)
        ELSE Acquire(Acquire(o1, l.found.id), l.found.id)

AliasNoShare(o, id) == o

\* std::shared_ptr<T>(resource, ptr): the typed handle shares the ownership.
Alias(o, id) == Acquire(o, id)

\* The books when MultiResourceManager::get<T> returns: the typed handle is
\* made if the kind matches, and the local resource is destroyed.
AfterGetT(o, c, l) ==
    LET o2 == AfterGet(o, c, l)
    IN  IF l.found = NullPtr THEN o2
        ELSE IF l.ret # NullPtr THEN Drop(Alias(o2, l.found.id), l.found.id)
        ELSE Drop(o2, l.found.id)

\* The caller keeps the handle it got, or lets it go at once.
Caller(o, l, keep) ==
    IF l.ret = NullPtr
    THEN /\ use_count' = o.rc /\ freed' = o.freed /\ handles' = handles
    ELSE IF keep
    THEN /\ use_count' = o.rc /\ freed' = o.freed
         /\ handles' = [handles EXCEPT ![l.ret.id] = @ + 1]
    ELSE /\ use_count' = Drop(o, l.ret.id).rc
         /\ freed' = Drop(o, l.ret.id).freed
         /\ handles' = handles

Books == [rc |-> use_count, freed |-> freed]

OwnGet(path, keep) ==
    /\ GetStep(path) /\ script = <<>>
    /\ Caller(AfterGet(Books, cache_, last'), last', keep)
    /\ UNCHANGED <<script, concVars, isoVars, libVars>>

OwnGetTyped(T, path, keep) ==
    /\ GetTypedStep(T, path)
    /\ Caller(AfterGetT(Books, cache_, last'), last', keep)
    /\ UNCHANGED <<concVars, isoVars, libVars>>

OwnClear ==
    /\ ClearStep /\ script = <<>>
    /\ LET o == DropAll(Books, HeldBy(cache_, DOMAIN cache_))
       IN  use_count' = o.rc /\ freed' = o.freed
    /\ UNCHANGED <<script, played, handles, concVars, isoVars, libVars>>

\* A caller lets go of a handle it holds.
Release(id) ==
    /\ handles[id] > 0
    /\ handles' = [handles EXCEPT ![id] = @ - 1]
    /\ use_count' = Drop(Books, id).rc
    /\ freed' = Drop(Books, id).freed
    /\ UNCHANGED <<max_cache_size_, cache_, now, nextId, crashed, steps, last,
                   prev, script, played, concVars, isoVars, libVars>>

OwnInit ==
    /\ max_cache_size_ \in 1..MaxCap
    /\ cache_ = [k \in {} |-> NullPtr]
    /\ now = 0
    /\ nextId = 1
    /\ crashed = FALSE
    /\ steps = 0
    /\ last = NoOp
    /\ prev = Brief(NoOp)
    /\ script = <<>>
    /\ played = <<>>
    /\ Idle /\ LibIdle

\* The paths the callers ask for: a texture, a sound and one that fails to
\* load.
OwnPaths == {PathA, PathB, PathD}

OwnNext ==
    \/ \E path \in OwnPaths, keep \in BOOLEAN : OwnGet(path, keep)
    \/ \E T \in Kinds, path \in OwnPaths, keep \in BOOLEAN :
          OwnGetTyped(T, path, keep)
    \/ OwnClear
    \/ \E id \in Ids : Release(id)

OwnSpec == OwnInit /\ [][OwnNext]_vars

\* ------------------------------------------------------ concurrent callers
\* Threads that call get on one manager with nothing to order their calls:
\* the class has no mutex and no atomic.  A call is cut at its accesses to
\* cache_ and at its call of loader_.
MaxThreads == 2

Threads == 1..MaxThreads

\* The paths the threads ask for: two that load and one that does not.
ConcPaths == {PathA, PathB, PathD}

\* A thread about to run get(path).
Call(path) == [pc |-> "find", key |-> path, loaded |-> "null", ret |-> NullPtr]

ConcFrame ==
    UNCHANGED <<max_cache_size_, steps, last, prev, script, played, ownVars,
                isoVars, libVars>>

\* cache_.find(path) and, on a hit, the three statements of the hit branch.
ConcFind(t) ==
    /\ ~crashed /\ thr[t].pc = "find"
    /\ IF thr[t].key \in DOMAIN cache_
       THEN \E dt \in {0, 1} :
              /\ cache_' = Touch(cache_, thr[t].key, now + dt)
              /\ now' = now + dt
              /\ thr' = [thr EXCEPT ![t].pc = "done",
                                    ![t].ret = cache_[thr[t].key].resource]
       ELSE /\ thr' = [thr EXCEPT ![t].pc = "check"]
            /\ UNCHANGED <<cache_, now>>
    /\ ConcFrame /\ UNCHANGED <<nextId, crashed, loaderCalls>>

\* if (cache_.size() >= max_cache_size_) evict_lru();
ConcCheck(t) ==
    /\ ~crashed /\ thr[t].pc = "check"
    /\ IF Full(cache_) /\ DOMAIN cache_ # {}
       THEN \E ord \in Orders(DOMAIN cache_) :
              cache_' = evict_lru(cache_, ord)
       ELSE UNCHANGED cache_
    /\ thr' = [thr EXCEPT ![t].pc = "load"]
    /\ ConcFrame /\ UNCHANGED <<now, nextId, crashed, loaderCalls>>

\* auto resource = loader_(path); if (!resource) return nullptr;
ConcLoad(t) ==
    /\ ~crashed /\ thr[t].pc = "load"
    /\ loaderCalls' = [loaderCalls EXCEPT ![thr[t].key] = @ + 1]
    /\ LET kind == loader_(thr[t].key)
       IN  thr' = IF Loaded(kind)
                  THEN [thr EXCEPT ![t].pc = "insert", ![t].loaded = kind]
                  ELSE [thr EXCEPT ![t].pc = "done"]
    /\ ConcFrame /\ UNCHANGED <<cache_, now, nextId, crashed>>

\* make_shared, cache_[path] = {shared, now(), 1}, return shared.
ConcInsert(t) ==
    /\ ~crashed /\ thr[t].pc = "insert"
    /\ \E dt \in {0, 1} :
          LET shared == [id |-> nextId, kind |-> thr[t].loaded]
          IN  /\ cache_' = Insert(cache_, thr[t].key, shared, now + dt)
              /\ now' = now + dt
              /\ nextId' = nextId + 1
              /\ thr' = [thr EXCEPT ![t].pc = "done", ![t].ret = shared]
    /\ ConcFrame /\ UNCHANGED <<crashed, loaderCalls>>

\* The next step of thread t reads or writes cache_.
Accesses(t) == thr[t].pc \in {"find", "check", "insert"}

\* The next step of thread t writes cache_.
Writes(t) ==
    \/ thr[t].pc = "insert"
    \/ thr[t].pc = "find" /\ thr[t].key \in DOMAIN cache_
    \/ thr[t].pc = "check" /\ Full(cache_) /\ DOMAIN cache_ # {}

\* Two unordered accesses to cache_, one of them a write: a data race, whose
\* behaviour is undefined.  The build either runs the accesses in some order
\* (the steps above) or the process dies.
ConcRace ==
    /\ ~crashed
    /\ \E t1, t2 \in Threads : t1 # t2 /\ Writes(t1) /\ Accesses(t2)
    /\ crashed' = TRUE
    /\ ConcFrame /\ UNCHANGED <<cache_, now, nextId, thr, loaderCalls>>

ConcInit ==
    /\ max_cache_size_ \in 1..MaxCap
    /\ cache_ = [k \in {} |-> NullPtr]
    /\ now = 0
    /\ nextId = 1
    /\ crashed = FALSE
    /\ steps = 0
    /\ last = NoOp
    /\ prev = Brief(NoOp)
    /\ script = <<>>
    /\ played = <<>>
    /\ use_count = [i \in Ids |-> 0]
    /\ handles = [i \in Ids |-> 0]
    /\ freed = {}
    /\ thr \in [Threads -> {Call(k) : k \in ConcPaths}]
    /\ loaderCalls = [k \in Keys |-> 0]
    /\ self = 1
    /\ parked = NoManager
    /\ LibIdle

ConcNext ==
    \/ \E t \in Threads : ConcFind(t)
    \/ \E t \in Threads : ConcCheck(t)
    \/ \E t \in Threads : ConcLoad(t)
    \/ \E t \in Threads : ConcInsert(t)
    \/ ConcRace

ConcSpec == ConcInit /\ [][ConcNext]_vars

\* ----------------------------------------------------------- two managers
\* Two managers constructed one after the other.  cache_ and max_cache_size_
\* are the members of the manager the next call is made on, parked holds
\* the members of the other one; the clock and the allocator are the
\* process's.
Managers == {1, 2}

Members == [cache |-> cache_, cap |-> max_cache_size_]

\* The members of manager i.
MembersOf(i) == IF i = self THEN Members ELSE parked

\* The map a member function sees through this, were cache_ a static member
\* that all the managers share.
ThisCacheStatic(m) == cache_

\* The map a member function sees through this: cache_ is a non-static
\* member, one per object.
ThisCache(m) == m.cache

\* The caller turns to the other manager, to make a call on it.
Switch ==
    /\ ~crashed /\ script = <<>> /\ steps < MaxOps
    /\ self' = 3 - self
    /\ parked' = Members
    /\ cache_' = ThisCache(parked)
    /\ max_cache_size_' = parked.cap
    /\ UNCHANGED <<now, nextId, crashed, steps, last, prev, script, played,
                   ownVars, concVars, libVars>>

\* The paths the callers ask for: a texture and a sound.
IsoPaths == {PathA, PathB}

\* The capacity the second manager is constructed with.
SecondCap == 1

IsoInit ==
    /\ max_cache_size_ \in 1..MaxCap
    /\ cache_ = [k \in {} |-> NullPtr]
    /\ now = 0
    /\ nextId = 1
    /\ crashed = FALSE
    /\ steps = 0
    /\ last = NoOp
    /\ prev = Brief(NoOp)
    /\ script = <<>>
    /\ played = <<>>
    /\ use_count = [i \in Ids |-> 0]
    /\ handles = [i \in Ids |-> 0]
    /\ freed = {}
    /\ thr = <<>>
    /\ loaderCalls = [k \in Keys |-> 0]
    /\ self = 1
    /\ parked = [cache |-> [k \in {} |-> NullPtr], cap |-> SecondCap]
    /\ LibIdle

IsoNext ==
    \/ \E path \in IsoPaths : Get(path)
    \/ \E T \in Kinds, path \in IsoPaths : GetTyped(T, path)
    \/ Clear
    \/ Switch

IsoSpec == IsoInit /\ [][IsoNext]_vars

\* ------------------------------------------------------- the map alone
\* The calls as they act on the map, the clock and the allocator: of a call
\* only the keys it evicted are remembered.  get<T> acts on the map as get
\* does (line 474).
CoreGet(path) ==
    /\ ~crashed /\ steps < MaxOps /\ script = <<>>
    /\ \E dt \in {0, 1}, ord \in OrdersFor(path) :
          LET r == get(path, dt, ord, "noop")
          IN  /\ cache_' = r.cache
              /\ now' = r.now
              /\ nextId' = r.nextId
              /\ last' = [NoOp EXCEPT !.op = "get", !.evicted = r.evicted]
    /\ steps' = steps + 1
    /\ UNCHANGED <<max_cache_size_, crashed, prev, script, played, ownVars,
                   concVars, isoVars, libVars>>

CoreClear ==
    /\ ~crashed /\ steps < MaxOps /\ script = <<>>
    /\ cache_' = Cleared(cache_)
    /\ steps' = steps + 1
    /\ last' = [NoOp EXCEPT !.op = "clear"]
    /\ UNCHANGED <<max_cache_size_, now, nextId, crashed, prev, script,
                   played, ownVars, concVars, isoVars, libVars>>

CoreNext == (\E path \in Keys : CoreGet(path)) \/ CoreClear

\* A cache of capacity >= 1, as OwnInit makes it.
CoreSpec == OwnInit /\ [][CoreNext]_vars

\* ----------------------------------------------------- typed retrieval
\* Calls of get<T> over paths of every extension load_resource tells apart:
\* .png, .jpg, .wav, .mp3, another extension, and a file named ".png", which
\* has no extension.
PathJ == <<"e", ".", "j", "p", "g">>
PathM == <<"f", ".", "m", "p", "3">>
PathH == <<".", "p", "n", "g">>
TypedPaths == {PathA, PathJ, PathB, PathM, PathD, PathH}

TypedNext == \E T \in Kinds, path \in TypedPaths : GetTyped(T, path)

\* A manager of capacity >= 1, as OwnInit makes it.
TypedSpec == OwnInit /\ [][TypedNext]_vars

\* ---------------------------------------------------------- LockFreeStack
\* Threads that push and pop one LockFreeStack<int>.  A step is one access to
\* head with what the thread does on its own around it.  The heap has
\* MaxNodes addresses; new takes any free one, so that an address freed by
\* delete is handed out again.
MaxNodes == 2
MaxStackOps == 5

Addrs == 1..MaxNodes

\* A thread outside push and pop.
Resting == [pc |-> "idle", old_head |-> 0, next |-> 0, new_node |-> 0,
            ret |-> "none", sawEmpty |-> FALSE]

\* The memory of an address no Node was made at yet.
Raw == [data |-> 0, next |-> 0, live |-> FALSE]

StackFrame ==
    UNCHANGED <<max_cache_size_, cache_, now, nextId, last, prev, script,
                played, ownVars, concVars, isoVars, poolVars, ptrVars>>

\* What the process does when a thread uses the memory of a deleted Node
\* that was not handed out again: it goes on with what the memory holds, or
\* it dies.  Memory that new handed out again is the new Node's.
AfterUse(addr, what) ==
    IF heap[addr].live
    THEN crashed' = FALSE /\ ubSeen' = ubSeen
    ELSE crashed' \in BOOLEAN /\ ubSeen' = ubSeen \cup {what}

\* push: new Node(value) and head.load().
PushStart(t) ==
    /\ ~crashed /\ steps < MaxStackOps /\ stk[t].pc = "idle"
    /\ \E a \in {b \in Addrs : ~heap[b].live} :
          /\ heap' = [heap EXCEPT ![a] = [data |-> steps + 1, next |-> 0,
                                          live |-> TRUE]]
          /\ stk' = [stk EXCEPT ![t] = [Resting EXCEPT !.pc = "push_cas",
                                                     !.new_node = a,
                                                     !.old_head = head]]
    /\ steps' = steps + 1
    /\ StackFrame /\ UNCHANGED <<head, pushed, popped, crashed, ubSeen>>

\* push: new_node->next.store(old_head) and the compare_exchange_weak.
PushCas(t) ==
    /\ ~crashed /\ stk[t].pc = "push_cas"
    /\ heap' = [heap EXCEPT ![stk[t].new_node].next = stk[t].old_head]
    /\ IF head = stk[t].old_head
       THEN /\ head' = stk[t].new_node
            /\ pushed' = pushed \cup {heap[stk[t].new_node].data}
            /\ stk' = [stk EXCEPT ![t] = Resting]
       ELSE /\ stk' = [stk EXCEPT ![t].old_head = head]
            /\ UNCHANGED <<head, pushed>>
    /\ StackFrame /\ UNCHANGED <<steps, popped, crashed, ubSeen>>

\* pop: head.load().
PopStart(t) ==
    /\ ~crashed /\ steps < MaxStackOps /\ stk[t].pc = "idle"
    /\ stk' = [stk EXCEPT ![t] = [Resting EXCEPT !.pc = "pop_next",
                                               !.old_head = head,
                                               !.sawEmpty = (head = 0)]]
    /\ steps' = steps + 1
    /\ StackFrame /\ UNCHANGED <<head, heap, pushed, popped, crashed, ubSeen>>

\* pop: the test of the while loop and old_head->next.load().
PopNext(t) ==
    /\ ~crashed /\ stk[t].pc = "pop_next"
    /\ IF stk[t].old_head = 0
       THEN /\ stk' = [stk EXCEPT ![t] = [Resting EXCEPT !.ret = "nullopt",
                                             !.sawEmpty = stk[t].sawEmpty]]
            /\ UNCHANGED <<crashed, ubSeen>>
       ELSE /\ stk' = [stk EXCEPT ![t].pc = "pop_cas",
                                  ![t].next = heap[stk[t].old_head].next]
            /\ AfterUse(stk[t].old_head, "read")
    /\ StackFrame /\ UNCHANGED <<steps, head, heap, pushed, popped>>

\* pop: the compare_exchange_weak.
PopCas(t) ==
    /\ ~crashed /\ stk[t].pc = "pop_cas"
    /\ IF head = stk[t].old_head
       THEN /\ head' = stk[t].next
            /\ stk' = [stk EXCEPT ![t].pc = "pop_take"]
       ELSE /\ stk' = [stk EXCEPT ![t].pc = "pop_next",
                                  ![t].old_head = head,
                                  ![t].sawEmpty = (@ \/ head = 0)]
            /\ UNCHANGED head
    /\ StackFrame /\ UNCHANGED <<steps, heap, pushed, popped, crashed, ubSeen>>

\* pop: std::move(old_head->data), delete old_head, return data.
PopTake(t) ==
    /\ ~crashed /\ stk[t].pc = "pop_take"
    /\ popped' = Append(popped, heap[stk[t].old_head].data)
    /\ heap' = [heap EXCEPT ![stk[t].old_head].live = FALSE]
    /\ stk' = [stk EXCEPT ![t] = [Resting EXCEPT !.ret = "value"]]
    /\ AfterUse(stk[t].old_head, "delete")
    /\ StackFrame /\ UNCHANGED <<steps, head, pushed>>

\* No resource manager: the stack is a program of its own.
NoCache ==
    /\ max_cache_size_ = 0
    /\ cache_ = [k \in {} |-> NullPtr]
    /\ now = 0
    /\ nextId = 1
    /\ last = NoOp
    /\ prev = Brief(NoOp)
    /\ script = <<>>
    /\ played = <<>>
    /\ Idle

StackInit ==
    /\ NoCache /\ PoolIdle /\ PtrIdle
    /\ crashed = FALSE /\ ubSeen = {}
    /\ steps = 0
    /\ head = 0
    /\ heap = [a \in Addrs |-> Raw]
    /\ stk = [t \in Threads |-> Resting]
    /\ pushed = {} /\ popped = <<>>

StackNext ==
    \/ \E t \in Threads : PushStart(t)
    \/ \E t \in Threads : PushCas(t)
    \/ \E t \in Threads : PopStart(t)
    \/ \E t \in Threads : PopNext(t)
    \/ \E t \in Threads : PopCas(t)
    \/ \E t \in Threads : PopTake(t)

StackSpec == StackInit /\ [][StackNext]_vars

\* -------------------------------------------------------------- MemoryPool
\* One MemoryPool and a caller that allocates blocks and gives them back.  A
\* block is the index of its Chunk in chunks_ and its offset in memory[].
CHUNK_SIZE == 4096

\* The block sizes and alignments the pool is constructed with: sizes that
\* divide a Chunk, one that does not, a whole Chunk and more than a Chunk;
\* alignments up to alignof(std::max_align_t), which memory[] has.
BlockSizes == {512, 1024, 1500, 2048, CHUNK_SIZE, 2 * CHUNK_SIZE}
Alignments == {8, 16}

\* std::align on a Chunk of which used bytes are taken: the offset of the
\* block, or -1 for nullptr when the block does not fit.
Align(alignment, sz, used) ==
    LET space == CHUNK_SIZE - used
        pad == (alignment - (used % alignment)) % alignment
    IN  IF sz + pad <= space THEN used + pad ELSE -1

\* Chunk::allocate: [ptr, used], ptr -1 for nullptr.
ChunkAllocate(sz, alignment, used) ==
    LET off == Align(alignment, sz, used)
    IN  IF off >= 0 THEN [ptr |-> off, used |-> off + sz]
        ELSE [ptr |-> -1, used |-> used]

\* deallocate: the block is linked in front of the free list.
Linked(fl, block) == <<block>> \o fl

RECURSIVE Carve(_, _, _, _)
\* The loop of expand from iteration i on, over the new Chunk number c of
\* which used bytes are taken: [free, used].
Carve(c, i, used, fl) ==
    IF i >= CHUNK_SIZE \div block_size_ THEN [free |-> fl, used |-> used]
    ELSE LET r == ChunkAllocate(block_size_, alignment_, used)
         IN  Carve(c, i + 1, r.used,
                   IF r.ptr >= 0 THEN Linked(fl, [chunk |-> c, off |-> r.ptr])
                   ELSE fl)

\* expand on the pool as it is: [free, chunks].
Expand(chunks, fl) ==
    LET r == Carve(Len(chunks) + 1, 0, 0, fl)
    IN  [free |-> r.free, chunks |-> Append(chunks, r.used)]

PoolFrame ==
    UNCHANGED <<max_cache_size_, cache_, now, nextId, last, prev, script,
                played, ownVars, concVars, isoVars, stackVars, ptrVars,
                block_size_, alignment_>>

\* allocate(): expand() on an empty free list, then the first block is
\* unlinked.  free_list_->next on a free list that is still empty is a null
\* pointer dereference: the process dies, or the call goes on and returns
\* nullptr.
PoolAllocate ==
    /\ ~crashed /\ steps < MaxOps
    /\ LET e == IF free_list_ = <<>> THEN Expand(chunks_, free_list_)
                ELSE [free |-> free_list_, chunks |-> chunks_]
       IN  /\ chunks_' = e.chunks
           /\ IF e.free = <<>>
              THEN /\ ubSeen' = ubSeen \cup {"null"}
                   /\ crashed' \in BOOLEAN
                   /\ UNCHANGED <<free_list_, given>>
              ELSE /\ free_list_' = Tail(e.free)
                   /\ given' = given \cup {Head(e.free)}
                   /\ UNCHANGED <<ubSeen, crashed>>
    /\ steps' = steps + 1
    /\ PoolFrame

\* deallocate(ptr) of a block allocate returned.
PoolDeallocate ==
    /\ ~crashed /\ steps < MaxOps
    /\ \E block \in given :
          /\ free_list_' = Linked(free_list_, block)
          /\ given' = given \ {block}
    /\ steps' = steps + 1
    /\ PoolFrame /\ UNCHANGED <<chunks_, ubSeen, crashed>>

\* The constructor: the members are set and expand() runs once.
PoolInit ==
    /\ NoCache /\ StackIdle /\ PtrIdle
    /\ crashed = FALSE /\ ubSeen = {}
    /\ steps = 0
    /\ block_size_ \in BlockSizes
    /\ alignment_ \in Alignments
    /\ chunks_ = Expand(<<>>, <<>>).chunks
    /\ free_list_ = Expand(<<>>, <<>>).free
    /\ given = {}

PoolNext == PoolAllocate \/ PoolDeallocate

PoolSpec == PoolInit /\ [][PoolNext]_vars

\* ------------------------------------------------------------ IntrusivePtr
\* IntrusivePtr<Node> objects and the RefCounted Nodes they point at.  A Node
\* is a RefCounted that has one IntrusivePtr<Node> member, as the node of a
\* list has.  The Nodes are made with new before the run; the pointer
\* objects are MaxPtrs variables of the caller and the member of each Node.
\* ptr_[s] is [alive, p]: p is 0 for nullptr, and what the memory holds once
\* the pointer object is destroyed.
MaxObjs == 2
MaxPtrs == 2

Objs == 1..MaxObjs
Locals == 1..MaxPtrs
MemberOf(o) == MaxPtrs + o
Slots == 1..(MaxPtrs + MaxObjs)

\* The books of the pointers and the Nodes: st is [ptr, rc, del, ub].
PtrState == [ptr |-> ptr_, rc |-> ref_count_, del |-> deleted, ub |-> ubSeen]

\* A member function of a deleted Node runs on freed memory.
Touched(st, o) ==
    IF st.del[o] > 0 THEN [st EXCEPT !.ub = @ \cup {"use"}] ELSE st

\* RefCounted::add_ref.
add_ref(st, o) == [Touched(st, o) EXCEPT !.rc[o] = @ + 1]

RECURSIVE release(_, _), Delete(_, _), Destroy(_, _)
\* RefCounted::release: fetch_sub, and delete this when it returned 1.
release(st, o) ==
    LET st1 == [Touched(st, o) EXCEPT !.rc[o] = @ - 1]
    IN  IF st.rc[o] = 1 THEN Delete(st1, o) ELSE st1

\* delete this: the Node's member is destroyed with it.
Delete(st, o) == Destroy([st EXCEPT !.del[o] = @ + 1], MemberOf(o))

\* ~IntrusivePtr.
Destroy(st, s) ==
    LET st1 == IF st.ptr[s].p # 0 THEN release(st, st.ptr[s].p) ELSE st
    IN  [st1 EXCEPT !.ptr[s].alive = FALSE]

PtrFrame ==
    UNCHANGED <<max_cache_size_, cache_, now, nextId, crashed, last, prev,
                script, played, ownVars, concVars, isoVars, stackVars,
                poolVars>>

Store(st) ==
    /\ ptr_' = st.ptr /\ ref_count_' = st.rc /\ deleted' = st.del
    /\ ubSeen' = st.ub
    /\ steps' = steps + 1
    /\ PtrFrame

\* The pointer objects the caller can name: its variables and the members
\* of the Nodes that are not deleted.
Reachable ==
    {s \in Slots : ptr_[s].alive}

\* IntrusivePtr(T* ptr), with nullptr or a Node that is not deleted.
CtorRaw(s, o) ==
    /\ steps < MaxOps /\ s \in Locals /\ ~ptr_[s].alive
    /\ IF o = 0 THEN TRUE ELSE deleted[o] = 0
    /\ LET st1 == [PtrState EXCEPT !.ptr[s] = [alive |-> TRUE, p |-> o]]
       IN  Store(IF o # 0 THEN add_ref(st1, o) ELSE st1)

\* IntrusivePtr(const IntrusivePtr& other).
CtorCopy(s, q) ==
    /\ steps < MaxOps /\ s \in Locals /\ ~ptr_[s].alive /\ q \in Reachable
    /\ LET o == ptr_[q].p
           st1 == [PtrState EXCEPT !.ptr[s] = [alive |-> TRUE, p |-> o]]
       IN  Store(IF o # 0 THEN add_ref(st1, o) ELSE st1)

\* IntrusivePtr(IntrusivePtr&& other).
CtorMove(s, q) ==
    /\ steps < MaxOps /\ s \in Locals /\ ~ptr_[s].alive /\ q \in Reachable
    /\ Store([PtrState EXCEPT !.ptr[s] = [alive |-> TRUE, p |-> ptr_[q].p],
                         !.ptr[q].p = 0])

\* operator=(const IntrusivePtr& other): release, then ptr_ = other.ptr_,
\* then add_ref.  When the release destroyed other, the read of other.ptr_
\* is a read of freed memory and may give any pointer.
Assign(s, q) ==
    /\ steps < MaxOps /\ s \in Reachable /\ q \in Reachable
    /\ IF s = q THEN Store(PtrState)
       ELSE LET st1 == IF ptr_[s].p # 0 THEN release(PtrState, ptr_[s].p) ELSE PtrState
                gone == ~st1.ptr[q].alive \/ ~st1.ptr[s].alive
                st2 == IF gone THEN [st1 EXCEPT !.ub = @ \cup {"use"}]
                       ELSE st1
            IN  \E o \in IF st1.ptr[q].alive THEN {st1.ptr[q].p}
                         ELSE {0} \cup Objs :
                   LET st3 == [st2 EXCEPT !.ptr[s].p = o]
                   IN  Store(IF o # 0 THEN add_ref(st3, o) ELSE st3)

\* ~IntrusivePtr of a variable of the caller.
Dtor(s) ==
    /\ steps < MaxOps /\ s \in Locals /\ ptr_[s].alive
    /\ Store(Destroy(PtrState, s))

PtrInit ==
    /\ NoCache /\ StackIdle /\ PoolIdle
    /\ crashed = FALSE /\ ubSeen = {}
    /\ steps = 0
    /\ ptr_ = [s \in Slots |-> [alive |-> s \notin Locals, p |-> 0]]
    /\ ref_count_ = [o \in Objs |-> 0]
    /\ deleted = [o \in Objs |-> 0]

PtrNext ==
    \/ \E s \in Locals, o \in {0} \cup Objs : CtorRaw(s, o)
    \/ \E s \in Locals, q \in Slots : CtorCopy(s, q)
    \/ \E s \in Locals, q \in Slots : CtorMove(s, q)
    \/ \E s \in Slots, q \in Slots : Assign(s, q)
    \/ \E s \in Locals : Dtor(s)

PtrSpec == PtrInit /\ [][PtrNext]_vars

\* ---------------------------------------------------------------- claims

\* C1: a cache constructed with capacity C >= 1 never holds more than C
\* entries, after any sequence of get, getTyped and clear.
C1_SizeWithinCapacity == max_cache_size_ >= 1 => size <= max_cache_size_

\* A miss on a full cache has evicted one entry and inserted the new one.
C1_Witness ==
    /\ max_cache_size_ >= 1
    /\ size = max_cache_size_
    /\ last.evicted # {}
    /\ last.ret # NullPtr

\* C2: when get(k) returned a handle h, the get(k) that immediately follows
\* returns h again and does not call the loader.
C2_HitCorrectness ==
    [][(/\ steps' = steps + 1
        /\ last.op = "get" /\ last.ret # NullPtr
        /\ last'.op = "get" /\ last'.key = last.key)
       => (last'.ret = last.ret /\ last'.loads = 0)]_vars

\* A get that loaded k, then a get of k that hit.
C2_Witness ==
    /\ prev.op = "get" /\ prev.ret # NullPtr /\ ~prev.hit
    /\ last.op = "get" /\ last.key = prev.key
    /\ last.hit /\ last.ret = prev.ret /\ last.loads = 0

\* The keys of a scripted run, in the order played.
PlayedKey(i) == played[i].key

\* Positions 1..n of the scripted run are n successful fetches of pairwise
\* distinct keys, apart from position skip (0 for none).
DistinctFetches(n, skip) ==
    /\ \A i \in 1..n : i # skip => loader_(PlayedKey(i)) # "null"
    /\ \A i, j \in 1..n : (i # j /\ i # skip /\ j # skip)
                             => PlayedKey(i) # PlayedKey(j)

\* The clock read a strictly larger time at each of the accesses 1..n.
StrictTimes(n) == \A i, j \in 1..n : i < j => played[i].at < played[j].at

\* The time of the last access to key k among the accesses 1..n.
LastAt(k, n) ==
    LET is == {i \in 1..n : PlayedKey(i) = k}
    IN  played[CHOOSE i \in is : \A j \in is : j <= i].at

\* C3 as stated: after C+1 distinct keys fetched in order into an empty cache
\* of capacity C, k1 is absent and k2..k(C+1) are present; with a get(k1) hit
\* before the eviction, the least recently accessed key is evicted and k1
\* stays.
C3_Original ==
    LET C == max_cache_size_
        n == Len(played)
    IN  /\ (n = C + 1 /\ DistinctFetches(n, 0))
           => /\ PlayedKey(1) \notin DOMAIN cache_
              /\ \A i \in 2..n : PlayedKey(i) \in DOMAIN cache_
        /\ \A j \in 2..(C + 1) :
             (n = C + 2 /\ PlayedKey(j) = PlayedKey(1)
                /\ DistinctFetches(n, j))
             => /\ PlayedKey(1) \in DOMAIN cache_
                /\ \A v \in last.evicted : \A i \in 1..(n - 1) :
                     LastAt(v, n - 1) <= LastAt(PlayedKey(i), n - 1)

\* C3 amended: when the clock reads a strictly larger time at each access,
\* the C+1 distinct fetches leave k2..k(C+1); a get(k1) hit made after k2 was
\* fetched has k2 evicted and k1 kept; a hit made before k2 is fetched (the
\* only place for it when C = 1) leaves k1 the one evicted.
C3_EvictionCorrectness ==
    LET C == max_cache_size_
        n == Len(played)
    IN  /\ (n = C + 1 /\ DistinctFetches(n, 0) /\ StrictTimes(n - 1))
           => DOMAIN cache_ = {PlayedKey(i) : i \in 2..n}
        /\ \A j \in 2..(C + 1) :
             (n = C + 2 /\ PlayedKey(j) = PlayedKey(1)
                /\ DistinctFetches(n, j) /\ StrictTimes(n - 1))
             => IF j = 2
                THEN DOMAIN cache_ = {PlayedKey(i) : i \in 3..n}
                ELSE DOMAIN cache_ =
                       {PlayedKey(i) : i \in 1..n} \ {PlayedKey(2)}

\* Capacity 2: k1, k2, a hit on k1, then k3, at increasing times: k2 went.
C3_Witness ==
    /\ max_cache_size_ = 2 /\ Len(played) = 4
    /\ PlayedKey(3) = PlayedKey(1) /\ DistinctFetches(4, 3) /\ StrictTimes(3)
    /\ last.evicted = {PlayedKey(2)}
    /\ DOMAIN cache_ = {PlayedKey(1), PlayedKey(4)}

\* C4 as stated: capacity 2 and get(a.png), get(b.wav), get(a.png),
\* get(c.png) give miss+insert, miss+insert (size 2), hit without loader call,
\* miss evicting b.wav; the cache ends as {a.png, c.png}.
C4_Original ==
    LET n == Len(played)
        want == <<PathA, PathB, PathA, PathC>>
    IN  (max_cache_size_ = 2 /\ n >= 1
           /\ \A i \in 1..n : i <= 4 /\ PlayedKey(i) = want[i])
        => /\ n = 1 => (~last.hit /\ last.loads = 1
                          /\ DOMAIN cache_ = {PathA})
           /\ n = 2 => (~last.hit /\ last.loads = 1 /\ size = 2
                          /\ DOMAIN cache_ = {PathA, PathB})
           /\ n = 3 => (last.hit /\ last.loads = 0 /\ size = 2)
           /\ n = 4 => (~last.hit /\ last.loads = 1
                          /\ last.evicted = {PathB} /\ size = 2
                          /\ DOMAIN cache_ = {PathA, PathC})
           /\ n \in {1, 3} => last.ret.kind = "Texture"
           /\ n = 2 => last.ret.kind = "Sound"

\* C4 amended: the scenario ends with b.wav evicted and {a.png, c.png} cached
\* provided the hit on a.png reads a later time than the insertion of b.wav.
C4_ConcreteScenario ==
    LET n == Len(played)
        want == <<PathA, PathB, PathA, PathC>>
    IN  (max_cache_size_ = 2 /\ n >= 1
           /\ \A i \in 1..n : i <= 4 /\ PlayedKey(i) = want[i])
        => /\ n = 1 => (~last.hit /\ last.loads = 1
                          /\ DOMAIN cache_ = {PathA})
           /\ n = 2 => (~last.hit /\ last.loads = 1 /\ size = 2
                          /\ DOMAIN cache_ = {PathA, PathB})
           /\ n = 3 => (last.hit /\ last.loads = 0 /\ size = 2)
           /\ n = 4 => (~last.hit /\ last.loads = 1 /\ size = 2
                          /\ Cardinality(last.evicted) = 1
                          /\ PathC \in DOMAIN cache_)
           /\ (n = 4 /\ played[2].at < played[3].at)
                 => (last.evicted = {PathB}
                       /\ DOMAIN cache_ = {PathA, PathC})
           /\ n \in {1, 3} => last.ret.kind = "Texture"
           /\ n = 2 => last.ret.kind = "Sound"

\* The four calls were made, the clock having advanced before the hit.
C4_Witness ==
    /\ max_cache_size_ = 2 /\ Len(played) = 4
    /\ PlayedKey(1) = PathA /\ PlayedKey(2) = PathB
    /\ PlayedKey(3) = PathA /\ PlayedKey(4) = PathC
    /\ played[2].at < played[3].at
    /\ last.evicted = {PathB}
    /\ DOMAIN cache_ = {PathA, PathC}

\* C5: when the loader fails for k, get(k) leaves k out of the cache and the
\* number of entries unchanged or one smaller, never larger.
C5_FailedLoadKeepsState ==
    [][(/\ steps' = steps + 1
        /\ last'.op \in {"get", "getTyped"}
        /\ last'.loads = 1 /\ loader_(last'.key) = "null")
       => (/\ last'.ret = NullPtr
           /\ last'.key \notin DOMAIN cache_'
           /\ size' \in {size, size - 1}
           /\ \A k \in DOMAIN cache_' :
                k \in DOMAIN cache_ /\ cache_'[k] = cache_[k])]_vars

\* A failed load on a full cache: one entry went in the speculative eviction.
C5_Witness ==
    /\ last.op = "get" /\ last.loads = 1 /\ loader_(last.key) = "null"
    /\ last.ret = NullPtr /\ last.evicted # {}
    /\ size = max_cache_size_ - 1

\* C6: after getTyped<WrongKind>(k) missed on a cached k, the
\* getTyped<RightKind>(k) that follows returns the resource k held, without
\* calling the loader.
C6_MismatchNonDestructive ==
    [][(/\ steps' = steps + 1
        /\ last.op = "getTyped" /\ last.mismatch /\ last.hit
        /\ last'.op = "getTyped" /\ last'.key = last.key
        /\ last'.kind = last.found.kind)
       => (/\ last'.ret # NullPtr
           /\ last'.ret = last.found
           /\ last'.loads = 0)]_vars

\* A mismatching typed get on a cached key, then the rightly typed one.
C6_Witness ==
    /\ prev.op = "getTyped" /\ prev.mismatch /\ prev.hit
    /\ last.op = "getTyped" /\ last.key = prev.key
    /\ last.ret # NullPtr /\ last.ret.kind = last.kind
    /\ last.hit /\ last.loads = 0

\* C7 as stated: a getTyped call that ends in a kind mismatch leaves the set
\* of cached keys as it was, whether or not the key was cached.
C7_Original ==
    [][(/\ steps' = steps + 1
        /\ last'.op = "getTyped" /\ last'.mismatch)
       => DOMAIN cache_' = DOMAIN cache_]_vars

\* C8 as stated: a kind mismatch on a cached key leaves its last_access and
\* access_count as they were.
C8_Original ==
    [][(/\ steps' = steps + 1
        /\ last'.op = "getTyped" /\ last'.mismatch /\ last'.hit)
       => (/\ cache_'[last'.key].last_access = cache_[last'.key].last_access
           /\ cache_'[last'.key].access_count
                = cache_[last'.key].access_count)]_vars

\* C9 as stated: no cache of capacity 0 is usable, so no get runs the
\* eviction on an empty map or leaves more entries than the capacity.
C9_Original ==
    max_cache_size_ = 0 => (~last.ub /\ ~crashed /\ size <= max_cache_size_)

\* C10: after clear() the cache is empty, and a second clear() in a row
\* changes nothing.
C10_ClearIdempotent ==
    [][(/\ steps' = steps + 1
        /\ last'.op = "clear")
       => (/\ size' = 0
           /\ last.op = "clear"
                => <<cache_, max_cache_size_, now, nextId, crashed>>'
                     = <<cache_, max_cache_size_, now, nextId, crashed>>)]_vars

\* Something was loaded, then clear() ran twice in a row.
C10_Witness ==
    /\ nextId > 1
    /\ prev.op = "clear" /\ last.op = "clear"
    /\ size = 0

\* C16: on a cache of capacity >= 1, a miss that finds size() >= capacity
\* removes exactly one entry, whether or not the load then succeeds, and no
\* entry present at that moment has a smaller last_access than the one removed.
C16_StrictLruVictim ==
    [][(/\ steps' = steps + 1
        /\ max_cache_size_ >= 1
        /\ last'.op \in {"get", "getTyped"} /\ ~last'.hit
        /\ size >= max_cache_size_)
       => (/\ Cardinality(last'.evicted) = 1
           /\ last'.loads = 1
           /\ \A v \in last'.evicted :
                /\ v \in DOMAIN cache_ /\ v \notin DOMAIN cache_'
                /\ \A k \in DOMAIN cache_ :
                     cache_[v].last_access <= cache_[k].last_access
           /\ DOMAIN cache_' \ {last'.key} = DOMAIN cache_ \ last'.evicted)]_vars

\* A miss on a full cache of two entries with different last_access values.
C16_Witness ==
    /\ max_cache_size_ = 2 /\ size = 2
    /\ Cardinality(last.evicted) = 1 /\ ~last.hit /\ last.ret # NullPtr
    /\ \E k \in DOMAIN cache_ \ {last.key} :
          cache_[k].last_access < cache_[last.key].last_access

\* C17 as stated: among entries sharing the minimal last_access the victim
\* does not depend on the iteration order of the container.
C17_Original ==
    \A o1, o2 \in Orders(DOMAIN cache_) :
        DOMAIN cache_ # {} => Victim(cache_, o1) = Victim(cache_, o2)

\* C18: on a cache of capacity >= 1, a miss on a full cache whose load fails
\* leaves the evicted entry out: size() is capacity - 1 after the call.
C18_EvictionNotUndone ==
    [][(/\ steps' = steps + 1
        /\ max_cache_size_ >= 1
        /\ last'.op \in {"get", "getTyped"} /\ ~last'.hit
        /\ size = max_cache_size_
        /\ loader_(last'.key) = "null")
       => (/\ last'.ret = NullPtr
           /\ Cardinality(last'.evicted) = 1
           /\ last'.evicted \cap DOMAIN cache_' = {}
           /\ size' = max_cache_size_ - 1)]_vars

\* A failed load on a full cache of capacity 2 left one entry.
C18_Witness ==
    /\ max_cache_size_ = 2 /\ size = 1
    /\ last.op \in {"get", "getTyped"} /\ loader_(last.key) = "null"
    /\ last.loads = 1 /\ Cardinality(last.evicted) = 1

\* C19: a hit on k sets k's last_access to the time read, which is not
\* smaller than before, adds one to k's access_count, and leaves the key set,
\* k's handle and every other entry as they were.
C19_HitFrame ==
    [][(/\ steps' = steps + 1
        /\ last'.op \in {"get", "getTyped"} /\ last'.hit)
       => (/\ DOMAIN cache_' = DOMAIN cache_
           /\ last'.key \in DOMAIN cache_
           /\ cache_'[last'.key].last_access = now'
           /\ cache_'[last'.key].last_access >= cache_[last'.key].last_access
           /\ now' >= now
           /\ cache_'[last'.key].access_count
                = cache_[last'.key].access_count + 1
           /\ cache_'[last'.key].resource = cache_[last'.key].resource
           /\ last'.found = cache_[last'.key].resource
           /\ \A k \in DOMAIN cache_ \ {last'.key} : cache_'[k] = cache_[k]
           /\ nextId' = nextId /\ last'.loads = 0)]_vars

\* A hit on one of two cached keys that read a later time.
C19_Witness ==
    /\ size = 2 /\ last.op = "get" /\ last.hit
    /\ cache_[last.key].access_count = 2
    /\ cache_[last.key].last_access = now
    /\ \E k \in DOMAIN cache_ : cache_[k].last_access < now

\* The position of the last successful load of key k among the calls 1..n of
\* the scripted run, 0 when there is none.
LastLoad(k, n) ==
    LET is == {i \in 1..n : /\ played[i].op = "get" /\ played[i].key = k
                            /\ played[i].loads = 1
                            /\ played[i].ret # NullPtr}
    IN  IF is = {} THEN 0 ELSE CHOOSE i \in is : \A j \in is : j <= i

\* Key k was cached by call j and then dropped, by an eviction or by clear(),
\* before call n, with no get of k in between.
DroppedBetween(k, j, n) ==
    /\ 1 <= j /\ j < n
    /\ played[j].op = "get" /\ played[j].key = k /\ played[j].ret # NullPtr
    /\ \A i \in (j + 1)..(n - 1) : played[i].key # k
    /\ \E i \in (j + 1)..(n - 1) : k \in played[i].evicted

\* C11: the get(k) that follows the eviction or the clearing of k is a miss
\* that calls the loader again and inserts a fresh entry with access_count 1.
C11_DroppedKeyReloads ==
    LET n == Len(played)
    IN  \A j \in 1..n :
          (n >= 1 /\ played[n].op = "get"
             /\ DroppedBetween(played[n].key, j, n))
          => /\ ~played[n].hit /\ played[n].loads = 1
             /\ played[n].ret # NullPtr
             /\ played[n].ret.id # played[j].ret.id
             /\ played[n].ret.id = nextId - 1
             /\ played[n].key \in DOMAIN cache_
             /\ cache_[played[n].key] =
                  [resource |-> played[n].ret, last_access |-> played[n].at,
                   access_count |-> 1]

\* A key reloaded after its eviction, in a run without clear().
C11_Witness ==
    LET n == Len(played)
    IN  /\ n >= 3 /\ played[n].op = "get"
        /\ \E j \in 1..n : /\ DroppedBetween(played[n].key, j, n)
                           /\ \A i \in 1..n : played[i].op # "clear"
        /\ cache_[played[n].key].access_count = 1

\* C14: a get(k) that hits returns the handle made by the most recent
\* successful load of k, and that is the handle the cache holds for k.
C14_ReadAfterWrite ==
    LET n == Len(played)
    IN  /\ \A k \in DOMAIN cache_ :
             /\ LastLoad(k, n) # 0
             /\ cache_[k].resource = played[LastLoad(k, n)].ret
        /\ (n >= 1 /\ played[n].hit)
             => /\ LastLoad(played[n].key, n) # 0
                /\ played[n].ret = played[LastLoad(played[n].key, n)].ret
                /\ played[n].loads = 0

\* A hit on a key that was loaded, evicted and loaded again: the handle is
\* the second one.
C14_Witness ==
    LET n == Len(played)
    IN  /\ n = 4 /\ played[n].hit
        /\ played[1].key = played[n].key /\ played[1].ret # NullPtr
        /\ played[3].key = played[n].key /\ played[3].loads = 1
        /\ played[n].ret = played[3].ret
        /\ played[n].ret # played[1].ret

\* The number of get calls of k that returned a handle, from call j on.
Successes(k, j, n) ==
    Cardinality({i \in j..n : /\ played[i].op = "get" /\ played[i].key = k
                              /\ played[i].ret # NullPtr})

\* C20 as stated, for the call that follows a successful miss of the same
\* key: access_count is the number of those two calls that returned a handle.
C20_Original ==
    (/\ ~crashed
     /\ prev.op \in {"get", "getTyped"} /\ ~prev.hit /\ prev.ret # NullPtr
     /\ last.op \in {"get", "getTyped"} /\ last.key = prev.key)
    => /\ last.key \in DOMAIN cache_
       /\ cache_[last.key].access_count
            = 1 + (IF last.ret # NullPtr THEN 1 ELSE 0)

\* C20 for runs of ResourceManager::get alone: a successful miss inserts one
\* entry for the key, with access_count 1 and the time read as last_access,
\* and returns the handle stored in it; from then on access_count is the
\* number of successful get calls of the key since that insertion.
C20_UntypedGetCounts ==
    /\ [](LET n == Len(played)
          IN  \A k \in DOMAIN cache_ :
                /\ LastLoad(k, n) # 0
                /\ cache_[k].access_count = Successes(k, LastLoad(k, n), n))
    /\ [][(/\ steps' = steps + 1
           /\ last'.op = "get" /\ ~last'.hit /\ last'.ret # NullPtr)
          => (/\ last'.key \notin DOMAIN cache_
              /\ DOMAIN cache_' =
                   (DOMAIN cache_ \ last'.evicted) \cup {last'.key}
              /\ cache_'[last'.key] =
                   [resource |-> last'.ret, last_access |-> now',
                    access_count |-> 1]
              /\ \A k \in DOMAIN cache_' \ {last'.key} :
                   cache_'[k] = cache_[k])]_vars

\* A key loaded and then hit twice: access_count is 3.
C20_UntypedWitness ==
    LET n == Len(played)
    IN  /\ n >= 3
        /\ \E k \in DOMAIN cache_ :
             /\ cache_[k].access_count = 3
             /\ Successes(k, LastLoad(k, n), n) = 3

\* The number of holders of resource id: the cache entries and the handles
\* of the callers.
Holders(id) ==
    Cardinality({k \in DOMAIN cache_ : cache_[k].resource.id = id})
      + handles[id]

\* C12: the use count of a resource is the number of its holders, the cache
\* entry and the callers' handles, typed ones included; a resource is deleted
\* when that number reaches zero and never while a holder remains, so a
\* handle outlives the eviction or the clearing of its entry.
C12_SharedOwnership ==
    \A id \in Ids :
        /\ use_count[id] = Holders(id)
        /\ id \in freed => (Holders(id) = 0 /\ id < nextId)
        /\ (id < nextId /\ Holders(id) = 0) => id \in freed
        /\ handles[id] > 0 => id \notin freed

\* A caller holds a handle to a resource whose entry was evicted or cleared,
\* and a resource with no holder left was deleted.
C12_Witness ==
    \E id \in Ids :
        /\ handles[id] > 0 /\ use_count[id] = handles[id]
        /\ id \notin freed
        /\ \A k \in DOMAIN cache_ : cache_[k].resource.id # id
        /\ freed # {}

\* C13 as stated: when all the threads have called get(k) for one absent key
\* k and returned, loader_ was called exactly once for k and all the threads
\* hold the same handle, or all the same failure.
C13_Original ==
    \A k \in ConcPaths :
        (/\ \A t \in Threads : thr[t].key = k /\ thr[t].pc = "done"
         /\ ~crashed)
        => /\ loaderCalls[k] = 1
           /\ \A t1, t2 \in Threads : thr[t1].ret = thr[t2].ret

\* C15: a get, a getTyped or a clear on one manager leaves the key set, the
\* entries' fields and the capacity (so size() too) of the other manager as
\* they were, and turning from one manager to the other changes neither.
C15_Isolation ==
    [][\A i \in Managers :
          (i # self \/ self' # self) => MembersOf(i)' = MembersOf(i)]_vars

\* Both managers hold the same path, each its own resource object, right
\* after a call on one of them.
C15_Witness ==
    /\ last.op \in {"get", "getTyped"}
    /\ last.key \in DOMAIN cache_ \cap DOMAIN parked.cache
    /\ cache_[last.key].resource.id # parked.cache[last.key].resource.id

\* C21: every cached key maps to a resource of the kind load_resource gives
\* that key, and the kind under a key is the same before and after every step
\* that keeps the entry.
C21_KindStability ==
    /\ [](\A k \in DOMAIN cache_ :
             /\ cache_[k].resource.kind = loader_(k)
             /\ cache_[k].resource.kind \in Kinds)
    /\ [][\A k \in DOMAIN cache_ \cap DOMAIN cache_' :
             cache_'[k].resource.kind = cache_[k].resource.kind]_vars

\* A texture and a sound are cached, and the last call was a hit on the
\* sound: its entry was kept and touched.
C21_Witness ==
    /\ last.hit /\ last.key \in DOMAIN cache_
    /\ cache_[last.key].resource.kind = "Sound"
    /\ cache_[last.key].access_count >= 2
    /\ \E k \in DOMAIN cache_ : cache_[k].resource.kind = "Texture"

\* C22: on a cache of capacity >= 1 a get or getTyped calls the loader at
\* most once, and once exactly when the key is absent as the call starts; an
\* entry appears only under the key of such a call, holding the object that
\* call loaded, and an entry that stays keeps its object.
C22_LoaderProvenance ==
    [][(/\ steps' = steps + 1
        /\ max_cache_size_ >= 1
        /\ last'.op \in {"get", "getTyped"})
       => (/\ last'.loads \in {0, 1}
           /\ last'.loads = 1 <=> last'.key \notin DOMAIN cache_
           /\ \A k \in DOMAIN cache_' \ DOMAIN cache_ :
                 /\ k = last'.key /\ last'.loads = 1
                 /\ cache_'[k].resource = last'.found
                 /\ last'.found.id = nextId
           /\ \A k \in DOMAIN cache_' \cap DOMAIN cache_ :
                 cache_'[k].resource = cache_[k].resource)]_vars

\* A call that found its key absent, right after a hit, loaded the second or
\* a later object, and the key's entry holds it.
C22_Witness ==
    /\ steps >= 3
    /\ last.op \in {"get", "getTyped"} /\ last.loads = 1
    /\ last.key \in DOMAIN cache_
    /\ cache_[last.key].resource.id >= 2
    /\ prev.hit

\* Maps that have the keys, the resources and the last_access values of c,
\* and other access_count values: 1 or one more than in c, entry by entry.
Variants(c) ==
    {[k \in DOMAIN c |-> [c[k] EXCEPT !.access_count = IF up[k] THEN @ + 1 ELSE 1]] :
        up \in [DOMAIN c -> BOOLEAN]}

Agree(c1, c2) ==
    /\ DOMAIN c1 = DOMAIN c2
    /\ \A k \in DOMAIN c1 : [c1[k] EXCEPT !.access_count = 0]
                              = [c2[k] EXCEPT !.access_count = 0]

\* C23: on a cache of capacity >= 1, a get made on two maps that agree on the
\* keys and the last_access values and differ in the access_count values
\* evicts the same keys and leaves two maps that agree again; so the same
\* sequence of calls evicts the same keys from both.
C23_CountDoesNotEvict ==
    max_cache_size_ >= 1 =>
        \A c2 \in Variants(cache_), path \in Keys, dt \in {0, 1} :
            \A ord \in OrdersFor(path) :
                LET r1 == getOn(cache_, path, dt, ord, "noop")
                    r2 == getOn(c2, path, dt, ord, "noop")
                IN  /\ r1.evicted = r2.evicted
                    /\ Agree(r1.cache, r2.cache)

\* After an eviction the cache is full again and its least frequently used
\* entry is not its least recently used one.
C23_Witness ==
    /\ max_cache_size_ >= 1 /\ last.evicted # {}
    /\ Full(cache_) /\ size >= 2
    /\ \E ord \in Orders(DOMAIN cache_) :
          /\ VictimByCount(cache_, ord) # Victim(cache_, ord)
          /\ cache_[VictimByCount(cache_, ord)].last_access
               > cache_[Victim(cache_, ord)].last_access

\* C24: a get or getTyped removes at most one entry, and removes one only
\* when it is a miss that finds size() >= capacity; every other removal is
\* clear()'s.
C24_RemovalOnlyWhenFull ==
    [][(/\ steps' = steps + 1
        /\ last'.op \in {"get", "getTyped"})
       => LET removed == DOMAIN cache_ \ DOMAIN cache_'
          IN  /\ Cardinality(removed) <= 1
              /\ size < max_cache_size_ => removed = {}
              /\ removed # {} => (/\ ~last'.hit
                                  /\ last'.key \notin DOMAIN cache_
                                  /\ size >= max_cache_size_
                                  /\ removed = last'.evicted)]_vars

\* A miss on a full cache of capacity >= 2 has removed exactly one entry and
\* kept the others.
C24_Witness ==
    /\ last.op \in {"get", "getTyped"} /\ ~last.hit
    /\ Cardinality(last.evicted) = 1
    /\ max_cache_size_ >= 2 /\ size = max_cache_size_
    /\ last.key \in DOMAIN cache_

\* The kind the table of the claim gives a path: Texture for the extensions
\* .png and .jpg, Sound for .wav and .mp3, none for any other extension.
TableKind(path) ==
    CASE Extension(path) \in {ExtPng, ExtJpg} -> "Texture"
      [] Extension(path) \in {ExtWav, ExtMp3} -> "Sound"
      [] OTHER -> "null"

\* C25: on a manager of capacity >= 1, get<T>(path) returns a handle exactly
\* when the table gives path the kind T, and the handle is of kind T; for a
\* path of another extension it returns nullptr and no entry is made for
\* the path.
C25_TypedGet ==
    [][(/\ steps' = steps + 1 /\ last'.op = "getTyped")
       => (/\ last'.ret # NullPtr <=> TableKind(last'.key) = last'.kind
           /\ last'.ret # NullPtr => last'.ret.kind = last'.kind
           /\ TableKind(last'.key) = "null"
                => (/\ last'.ret = NullPtr
                    /\ last'.key \notin DOMAIN cache_'))]_vars

\* get<Sound> of the .mp3 path gave a handle of kind Sound, and the next
\* call, for a path of another extension, gave nullptr and cached nothing.
C25_Witness ==
    /\ last.op = "getTyped" /\ last.ret = NullPtr
    /\ TableKind(last.key) = "null" /\ last.key \notin DOMAIN cache_
    /\ prev.op = "getTyped" /\ prev.key = PathM /\ prev.kind = "Sound"
    /\ prev.ret # NullPtr /\ prev.ret.kind = "Sound"
    /\ PathM \in DOMAIN cache_

\* C26: a get or getTyped that loads its key makes an object that is none
\* of those the callers hold handles to, stores it under the key, and leaves
\* the held objects alive; so a handle kept from before the key was dropped
\* and the entry made by the reload refer to two live objects.
C26_ReloadIsNewObject ==
    [][(/\ steps' = steps + 1
        /\ last'.op \in {"get", "getTyped"}
        /\ last'.loads = 1 /\ last'.found # NullPtr)
       => (/\ cache_'[last'.key].resource.id = last'.found.id
           /\ \A id \in Ids :
                 handles[id] > 0
                   => (/\ last'.found.id # id
                       /\ cache_'[last'.key].resource.id # id
                       /\ id \notin freed'
                       /\ use_count'[id] >= handles[id]))]_vars

\* Three calls that loaded a.png, b.wav and a.png again: the caller holds
\* the first object of a.png and the third object, which a.png's entry holds
\* too, and both are alive.
C26_Witness ==
    /\ steps = 3 /\ nextId = 4
    /\ prev.key = PathB /\ last.key = PathA
    /\ last.ret # NullPtr /\ last.ret.id = 3
    /\ cache_[PathA].resource.id = 3
    /\ handles[1] > 0 /\ handles[3] > 0
    /\ freed \cap {1, 3} = {}

\* C27 as stated: no thread reads the next or the data of a Node that a pop
\* has deleted (here: of one whose memory is still free).
C27_Original == "read" \notin ubSeen

RECURSIVE Chain(_, _)
\* The values of the Nodes linked from address a, n of them at most.
Chain(a, n) ==
    IF a = 0 \/ n = 0 THEN {}
    ELSE {heap[a].data} \cup Chain(heap[a].next, n - 1)

\* C28 as stated, for the runs in which no free memory was used: no value
\* is returned by two pops, a pop returns nullopt only if it saw head empty,
\* and when no call is under way every pushed value was popped or is in the
\* stack.
C28_Original ==
    ubSeen = {} =>
        /\ \A i, j \in 1..Len(popped) : i # j => popped[i] # popped[j]
        /\ \A t \in Threads : stk[t].ret = "nullopt" => stk[t].sawEmpty
        /\ (\A t \in Threads : stk[t].pc = "idle")
              => pushed = {popped[i] : i \in 1..Len(popped)}
                            \cup Chain(head, MaxNodes)

\* C29 as stated: after the expand() of allocate() the free list is not
\* empty, so allocate() never dereferences an empty free list and the block
\* it returns lies in one of the pool's chunks.
C29_Original ==
    /\ "null" \notin ubSeen
    /\ \A block \in given :
          /\ block.chunk \in 1..Len(chunks_)
          /\ block.off >= 0 /\ block.off + block_size_ <= CHUNK_SIZE

\* The live pointer objects that point at Node o.
Pointing(o) == Cardinality({s \in Slots : ptr_[s].alive /\ ptr_[s].p = o})

\* C30 as stated: the ref_count_ of a Node is the number of live pointer
\* objects that point at it, and a Node is deleted once at most and only
\* when no live pointer object points at it.
C30_Original ==
    \A o \in Objs :
        /\ deleted[o] <= 1
        /\ deleted[o] = 0 => ref_count_[o] = Pointing(o)
        /\ deleted[o] = 1 => Pointing(o) = 0

====
